---- MODULE Spec2Model ----
(***************************************************************************)
(* playme: one audio source fans PCM frames out to many sinks over         *)
(* WebSocket channels; every sink estimates the clock offset, buffers the  *)
(* frames by local playout time and writes them to a playback process.     *)
(*                                                                         *)
(* The source (server.ts) and one sink session (client.ts, sync.ts) are    *)
(* modelled as two state machines over one set of variables:               *)
(*   SpecSource  the source with its sink table and its channels, fed by   *)
(*               arbitrary sink messages;                                  *)
(*   SpecSink    one sink session, fed by arbitrary source messages;       *)
(*   SpecSinkSync  the same session over a longer time, for the resync     *)
(*               timer, with fewer kinds of chunks;                        *)
(*   SpecSourceTimed  SpecSource with a running source clock;              *)
(*   SpecSourceTraced, SpecSinkTraced  the source and the sink with the    *)
(*               message each step handles and sends on record;            *)
(*   SpecTraced  one of these two, chosen by the first step;               *)
(*   SpecSourceFaults  the source with failed sends and ready times on     *)
(*               record;                                                   *)
(*   SpecSourceSync  the source answering sync requests on two             *)
(*               connections;                                              *)
(*   SpecSourceFramed  the source cutting a captured byte stream into      *)
(*               chunks of bytesPerChunk bytes;                            *)
(*   SpecSinkGaps, SpecSinkTrim, SpecSinkOrdered  the sink fed chunks      *)
(*               with sequence gaps, chunks that overflow the buffer,      *)
(*               and chunks in stamp order around a resync;                *)
(*   SpecSinkSample  the sink handling one sync_response;                  *)
(*   SpecSession  the source and one sink joined by an ordered channel     *)
(*               in each direction, with fair message handling;            *)
(*   SpecSinkResync, SpecSinkWindow  the sink with its sync exchanges on   *)
(*               record, in a whole session and alone over many intervals; *)
(*   SpecSinkPlayout, SpecSinkDrain  the sink with the writes it begins    *)
(*               on record, the second with a fair playback loop.          *)
(* Times are integer milliseconds.  Values the code computes as fractions  *)
(* (the clock offset, hence playTime) are exact rationals <<num, den>>.     *)
(***************************************************************************)
EXTENDS Integers, Sequences, FiniteSets, TLC

(* ------------------------------------------------------------------ *)
(* CONFIG (config.ts)                                                 *)
(* ------------------------------------------------------------------ *)
sampleRate == 48000
channels == 2
bitDepth == 16
chunkDurationMs == 20
syncIntervalMs == 1000
syncSamples == 5
targetBufferMs == 60
maxBufferMs == 200
samplesPerChunk == (sampleRate * chunkDurationMs) \div 1000
bytesPerChunk == samplesPerChunk * channels * (bitDepth \div 8)

(* ------------------------------------------------------------------ *)
(* Bounds of the model                                                *)
(* ------------------------------------------------------------------ *)
\* connections the source accepts (each gets a fresh id)
MaxConns == 2
\* framed blocks the capture stream yields
MaxBlocks == 2
\* sync_requests the source answers, over all connections
MaxSyncReq == 1
\* largest value of the source's clock
MaxSrcClock == 2
\* sync_requests the source answers in SpecSourceSync
MaxSyncExchanges == 2
\* blocks framed in SpecSourceTraced
MaxTracedBlocks == 1
\* blocks framed in SpecSourceFaults
MaxFaultBlocks == 2
\* reads the capture stream delivers before it ends, in SpecSourceFramed
MaxReads == 3

\* sync intervals the sink's clock runs through in SpecSink
MaxIntervals == 2
\* sync intervals the sink's clock runs through in SpecSinkSync
MaxSyncIntervals == 3
\* sync intervals the sink's clock runs through in SpecSinkTraced
MaxTracedIntervals == 1
\* audio_chunks a converged sink handles
MaxChunks == 2
\* largest timestamp of a sync exchange in SpecSinkSample
MaxStamp == 4
\* audio_chunks a converged sink handles in SpecSinkGaps
MaxGapChunks == 3
\* audio_chunks a converged sink handles in SpecSinkTrim
MaxTrimChunks == 3
\* audio_chunks a sink handles while converged in SpecSinkPlayout and
\* SpecSinkDrain: the two that start playback and one that arrives after
MaxPlayoutChunks == 3

Conns == 1..MaxConns
\* byte counts of one read of the capture stream: nothing, half a chunk, a
\* chunk, two chunks and a half
ReadSizes == {0, bytesPerChunk \div 2, bytesPerChunk, (5 * bytesPerChunk) \div 2}
MaxClock == MaxIntervals * syncIntervalMs
MaxSyncClock == MaxSyncIntervals * syncIntervalMs
MaxTracedClock == MaxTracedIntervals * syncIntervalMs
\* how far the sink's clock moves between two events
ClockSteps == {500}
\* timestamp of an arriving audio_chunk, relative to the sink's clock
ChunkLeads == {-560, -60, 140, 440}
\* the same in SpecSinkSync, where the clock runs longer
SyncChunkLeads == {-60}
\* sequence of an arriving audio_chunk, relative to lastSequence
SeqSteps == {1}
\* the same in SpecSinkGaps: a chunk overtaken, the next one, two chunks lost
GapSeqSteps == {-1, 1, 3}
\* timestamps in SpecSinkGaps: a late chunk and one just in time
GapChunkLeads == {-160, -60}
\* timestamps in SpecSinkTrim: a chunk just in time and two far ones
TrimChunkLeads == {-60, 140, 240}
\* timestamps in SpecSinkPlayout and SpecSinkDrain: a chunk due at once and
\* two due later
PlayoutChunkLeads == {-60, 140, 440}
\* timestamps in SpecSinkOrdered: two chunks stamped 10 ms apart
OrderedChunkLeads == {140, 150}
\* a sync_response, by <<t2 - t1, rtt>>: the source stamps t2 and sends at the
\* t3 that makes the exchange's round trip rtt
SyncStamps == {<<0, 0>>, <<300, 200>>}
\* the same in SpecSinkOrdered: immediate exchanges that measure the offsets
\* 0 and 40
OrderedSyncStamps == {<<0, 0>>, <<40, 0>>}

VARIABLES
  \* ---- source (server.ts ServerState and its channels)
  clients,      \* state.clients: connection id -> [isReady]
  sequence,     \* state.sequence
  capture,      \* "running" while chunkStream yields, then "ended"
  srcClock,     \* the source's now()
  conn,         \* per connection: "none", "open" (open ran), "closed" (close ran)
  sent,         \* per connection: the messages ws.send put on the channel
  gotReady,     \* per connection: a client_ready from it was handled
  readyAt,      \* per connection: -1, or state.sequence when isReady became true
  sendFailed,   \* per connection: the sequences of the chunks whose send threw
  srcLast,      \* <<>>, or <<c, tag>> of the message the last step handled
                \* (<<c, tag, frame>> in SpecSourceSync)
  \* ---- the capture stream and chunkStream (audio.ts)
  stream,       \* the values reader.read() resolves with before done, in order
  readPos,      \* the number of reads that have resolved
  frBuffer,     \* chunkStream: buffer
  yielded       \* the blocks chunkStream has yielded, in order

capVars == <<stream, readPos, frBuffer, yielded>>

srcVars == <<clients, sequence, capture, srcClock, conn, sent, gotReady, readyAt,
             sendFailed, srcLast, capVars>>

VARIABLES
  \* ---- sink (client.ts ClientState, its timers and its playback loop)
  clock,          \* the sink's now()
  ws,             \* ws.readyState: "connecting", "open", "closed"
  isConnected,    \* state.isConnected
  sync,           \* state.sync (sync.ts SyncState; drift is diagnostic, left out)
  buffer,         \* state.buffer: <<[sequence, playTime, insertedAt]>>
  playback,       \* state.playback: "null", "started", "stopped"
  isPlaying,      \* state.isPlaying
  lastSequence,   \* state.lastSequence
  droppedChunks,  \* state.droppedChunks
  lateChunks,     \* state.lateChunks
  pendingSyncT1,  \* state.pendingSyncT1: <<>> for null, <<t1>>
  serverInfo,     \* state.serverInfo: <<>> for null, <<message>>
  nextTick,       \* setInterval: <<>> before onopen, <<time of the next tick>>
  pc,             \* playbackLoop: "startup", "writing", "sleeping", "done"
  currentTime,    \* playbackLoop: currentTime while an iteration is suspended
  chunksWritten,  \* playbackLoop: chunksWritten while an iteration is suspended
  shifted,        \* playbackLoop: <<>>, or <<[sequence, playTime]>> while the
                  \* write of the shifted chunk is awaited
  handled,        \* number of audio_chunks handled while converged
  arrived,        \* <<>>, or <<the last audio_chunk handled while converged>>
  snkLast,        \* the last step: [got |-> the tag of the message handled,
                  \* "write_error" after a playback write that threw, or
                  \* "none", out |-> the tags of the messages sent]; in
                  \* SpecSinkSample also frame |-> the frame handled
  syncLog         \* the sync exchanges so far: [sent |-> the times at which a
                  \* sync_request was sent, accepted |-> the number of
                  \* sync_responses accepted]

snkVars == <<clock, ws, isConnected, sync, buffer, playback, isPlaying,
             lastSequence, droppedChunks, lateChunks, pendingSyncT1, serverInfo,
             nextTick, pc, currentTime, chunksWritten, shifted, handled,
             arrived, snkLast, syncLog>>

VARIABLES
  \* ---- the channel between the source's connection 1 and the sink
  net             \* [rcvd |-> how many messages of sent[1] the sink has handled,
                  \*  up |-> the sink's messages the source has not handled yet]

VARIABLES
  \* ---- the playback process
  writes          \* the frames whose write has begun, in order, kept by
                  \* SpecSinkPlayout and SpecSinkDrain only

vars == <<srcVars, snkVars, net, writes>>

(* ------------------------------------------------------------------ *)
(* Messages (protocol.ts)                                             *)
(* ------------------------------------------------------------------ *)
ServerInfo == [type |-> "server_info", sampleRate |-> sampleRate,
               channels |-> channels, bitDepth |-> bitDepth,
               chunkDurationMs |-> chunkDurationMs]
SyncRequest(t1) == [type |-> "sync_request", t1 |-> t1]
SyncResponse(t1, t2, t3) == [type |-> "sync_response", t1 |-> t1, t2 |-> t2, t3 |-> t3]
AudioChunk(ts, seq, data) ==
  [type |-> "audio_chunk", timestamp |-> ts, sequence |-> seq, data |-> data]
ClientReady == [type |-> "client_ready", clientId |-> "client"]
\* a server_info of a source with another sample rate
OtherServerInfo == [ServerInfo EXCEPT !.sampleRate = 44100]
ErrorMessage == [type |-> "error", message |-> "e"]

\* a received frame: bytes that decode to msg, or bytes decodeMessage throws on
Frame(m) == [bytes |-> "ok", msg |-> m]
Garbage == [bytes |-> "garbage"]

IsChunk(m) == m.type = "audio_chunk"

(* ------------------------------------------------------------------ *)
(* Source: server.ts                                                  *)
(* ------------------------------------------------------------------ *)
(* A Uint8Array is a sequence of runs <<first, length>> of consecutive byte *)
(* values, length > 0, neighbouring runs merged: the bytes of the capture  *)
(* stream are numbered 0, 1, 2, ... so that every byte is told from every  *)
(* other.                                                                  *)
RECURSIVE ByteLength(_)
ByteLength(b) == IF b = <<>> THEN 0 ELSE Head(b)[2] + ByteLength(Tail(b))

\* new Uint8Array(a.length + b.length), set(a), set(b, a.length)
Concat(a, b) ==
  IF a = <<>> THEN b
  ELSE IF b = <<>> THEN a
  ELSE LET la == a[Len(a)]
           fb == b[1]
       IN IF la[1] + la[2] = fb[1]
            THEN SubSeq(a, 1, Len(a) - 1) \o <<<<la[1], la[2] + fb[2]>>>> \o Tail(b)
            ELSE a \o b

\* b.slice(n)
RECURSIVE SliceFrom(_, _)
SliceFrom(b, n) ==
  IF n = 0 \/ b = <<>> THEN b
  ELSE IF Head(b)[2] <= n THEN SliceFrom(Tail(b), n - Head(b)[2])
  ELSE <<<<Head(b)[1] + n, Head(b)[2] - n>>>> \o Tail(b)

\* b.slice(0, n)
SliceWhole(b, n) == b
RECURSIVE SliceTo(_, _)
SliceTo(b, n) ==
  IF n = 0 \/ b = <<>> THEN <<>>
  ELSE IF Head(b)[2] <= n THEN <<Head(b)>> \o SliceTo(Tail(b), n - Head(b)[2])
  ELSE <<<<Head(b)[1], n>>>>

\* the bytes first, first + 1, ..., first + length - 1
Run(first, length) == IF length = 0 THEN <<>> ELSE <<<<first, length>>>>

\* the capture stream that delivers reads of these sizes
StreamOf(sizes) ==
  LET before[k \in 0..Len(sizes)] == IF k = 0 THEN 0 ELSE before[k - 1] + sizes[k]
  IN [k \in 1..Len(sizes) |-> Run(before[k - 1], sizes[k])]

Streams == {StreamOf(sizes) : sizes \in UNION {[1..n -> ReadSizes] : n \in 0..MaxReads}}

\* startServer with the capture stream s
SrcInitOn(s) ==
  /\ net = [rcvd |-> 0, up |-> <<>>]
  /\ stream = s
  /\ readPos = 0
  /\ frBuffer = <<>>
  /\ yielded = <<>>
  /\ clients = <<>>
  /\ sequence = 0
  /\ capture = "running"
  /\ srcClock = 0
  /\ conn = [c \in Conns |-> "none"]
  /\ sent = [c \in Conns |-> <<>>]
  /\ gotReady = [c \in Conns |-> FALSE]
  /\ readyAt = [c \in Conns |-> -1]
  /\ sendFailed = [c \in Conns |-> {}]
  /\ srcLast = <<>>

\* the capture stream is not looked into: its blocks arrive as
\* processAudioStream steps
SrcInit == SrcInitOn(<<>>)

\* ws.send on a connection: the message reaches the channel while it is open
Send(c, m) == IF conn[c] = "open" THEN [sent EXCEPT ![c] = Append(@, m)] ELSE sent

\* the sync_responses sent so far
SyncResponses ==
  LET n[c \in 0..MaxConns] ==
        IF c = 0 THEN 0
        ELSE n[c - 1] + Len(SelectSeq(sent[c], LAMBDA x : x.type = "sync_response"))
  IN n[MaxConns]

\* websocket.open, the send that ends it: the channel's messages after it
GreetingNone(log) == log
Greeting(log) == Append(log, ServerInfo)

\* websocket.open: connections are numbered in the order they are accepted
WsOpen(c) ==
  /\ conn[c] = "none"
  /\ \A d \in 1..(c - 1) : conn[d] # "none"
  /\ conn' = [conn EXCEPT ![c] = "open"]
  /\ clients' = [d \in DOMAIN clients \cup {c} |->
                   IF d = c THEN [isReady |-> FALSE] ELSE clients[d]]
  /\ sent' = [sent EXCEPT ![c] = Greeting(@)]
  /\ srcLast' = <<>>
  /\ UNCHANGED <<sequence, capture, srcClock, gotReady, readyAt, sendFailed, capVars,
                 snkVars>>

\* websocket.close
WsClose(c) ==
  /\ conn[c] = "open"
  /\ conn' = [conn EXCEPT ![c] = "closed"]
  /\ clients' = [d \in DOMAIN clients \ {c} |-> clients[d]]
  /\ srcLast' = <<>>
  /\ UNCHANGED <<sequence, capture, srcClock, sent, gotReady, readyAt, sendFailed,
                 capVars, snkVars>>

\* handleMessage, case CLIENT_READY: the table after the message
MarkReadyAlways(cl, c) == [d \in DOMAIN cl \cup {c} |-> [isReady |-> TRUE]]
MarkReadyNever(cl, c) == cl
MarkReadyFlip(cl, c) ==
  IF c \in DOMAIN cl THEN [cl EXCEPT ![c] = [isReady |-> ~@.isReady]] ELSE cl
MarkReady(cl, c) ==
  IF c \in DOMAIN cl THEN [cl EXCEPT ![c] = [isReady |-> TRUE]] ELSE cl

\* processSyncRequest (sync.ts): t2 = now(), t3 = now() a little later
processSyncRequestNoEcho(req, t2, t3) == SyncResponse(t2, t2, t3)
processSyncRequest(req, t2, t3) == SyncResponse(req.t1, t2, t3)

\* the sync_requests answered in one behaviour
SyncLimit(mode) ==
  IF mode \in {"sync", "session"} THEN MaxSyncExchanges ELSE MaxSyncReq

\* websocket.message followed by handleMessage; d is the time the source's
\* clock moves between the two now() of processSyncRequest.  The history
\* variables are written in the specifications that read them: srcLast under
\* modes "messages" and "sync", readyAt under mode "faults".
WsMessage(c, data, d, mode) ==
  /\ conn[c] # "none"
  /\ UNCHANGED <<snkVars, sendFailed, capVars>>
  /\ srcLast' = LET tag == IF data.bytes = "garbage" THEN "garbage" ELSE data.msg.type
                IN IF mode = "messages" THEN <<c, tag>>
                   ELSE IF mode = "sync" THEN <<c, tag, data>>
                   ELSE <<>>
  /\ IF data.bytes = "garbage"
       THEN UNCHANGED <<clients, sequence, capture, srcClock, conn, sent, gotReady,
                        readyAt>>
     ELSE LET m == data.msg IN
       CASE m.type = "sync_request" ->
              /\ SyncResponses < SyncLimit(mode)
              /\ srcClock + d <= MaxSrcClock
              /\ srcClock' = srcClock + d
              /\ sent' = Send(c, processSyncRequest(m, srcClock, srcClock + d))
              /\ UNCHANGED <<clients, sequence, capture, conn, gotReady, readyAt>>
         [] m.type = "client_ready" ->
              /\ clients' = MarkReady(clients, c)
              /\ gotReady' = [gotReady EXCEPT ![c] = TRUE]
              /\ readyAt' = IF mode = "faults" /\ clients' # clients
                              THEN [readyAt EXCEPT ![c] = sequence] ELSE readyAt
              /\ UNCHANGED <<sequence, capture, srcClock, conn, sent>>
         [] OTHER -> UNCHANGED <<clients, sequence, capture, srcClock, conn, sent,
                                 gotReady, readyAt>>

\* processAudioStream: the sinks one framed block is sent to
RecipientsAll(cl) == DOMAIN cl
Recipients(cl) == {c \in DOMAIN cl : cl[c].isReady}

\* the sequence stamped on the next block
NextSequenceStuck(s) == s
NextSequence(s) == s + 1

\* processAudioStream: the sinks a block reaches when the sends to failed throw
DeliveredUntilThrow(cl, failed) == IF failed = {} THEN Recipients(cl) ELSE {}
Delivered(cl, failed) == Recipients(cl) \ failed

\* processAudioStream: one iteration of the for-await loop.  failed is the
\* set of sinks whose ws.send throws (caught per sink); at most blocks blocks
\* are framed.  sendFailed is written under mode "faults".
processAudioStream(failed, blocks, mode) ==
  /\ capture = "running"
  /\ sequence < blocks
  /\ failed \subseteq Recipients(clients)
  /\ LET chunk == AudioChunk(srcClock, sequence, <<>>) IN
       sent' = [c \in Conns |->
                  IF c \in Delivered(clients, failed)
                    THEN Append(sent[c], chunk) ELSE sent[c]]
  /\ sequence' = NextSequence(sequence)
  /\ sendFailed' = IF mode = "faults"
                     THEN [c \in Conns |-> IF c \in failed
                                             THEN sendFailed[c] \cup {sequence}
                                             ELSE sendFailed[c]]
                     ELSE sendFailed
  /\ srcLast' = <<>>
  /\ UNCHANGED <<clients, capture, srcClock, conn, gotReady, readyAt, capVars, snkVars>>

\* the capture stream ends: the loop leaves, capture.stop()
CaptureEnd ==
  /\ capture = "running"
  /\ capture' = "ended"
  /\ srcLast' = <<>>
  /\ UNCHANGED <<clients, sequence, srcClock, conn, sent, gotReady, readyAt,
                 sendFailed, capVars, snkVars>>

\* chunkStream: reader.read() resolves with the next value, which is
\* appended to buffer; the generator reads only when buffer holds less than
\* a chunk
ReaderRead ==
  /\ capture = "running"
  /\ ByteLength(frBuffer) < bytesPerChunk
  /\ readPos < Len(stream)
  /\ frBuffer' = Concat(frBuffer, stream[readPos + 1])
  /\ readPos' = readPos + 1
  /\ srcLast' = <<>>
  /\ UNCHANGED <<clients, sequence, capture, srcClock, conn, sent, gotReady, readyAt,
                 sendFailed, stream, yielded, snkVars>>

\* processAudioStream: the channels after the block pcmData is stamped seq
\* and sent to the ready sinks, every send succeeding
Broadcast(log, pcmData, seq) ==
  [c \in Conns |-> IF c \in Delivered(clients, {})
                     THEN Append(log[c], AudioChunk(srcClock, seq, pcmData))
                     ELSE log[c]]

\* chunkStream: what is left in buffer after a chunk is yielded
RestAll(buf, chunkSize) == buf
Rest(buf, chunkSize) == SliceFrom(buf, chunkSize)

\* chunkStream yields buffer.slice(0, chunkSize) and the body of the
\* for-await loop of processAudioStream runs on it
YieldChunk ==
  /\ capture = "running"
  /\ ByteLength(frBuffer) >= bytesPerChunk
  /\ LET pcmData == SliceTo(frBuffer, bytesPerChunk) IN
       /\ yielded' = Append(yielded, pcmData)
       /\ sent' = Broadcast(sent, pcmData, sequence)
  /\ frBuffer' = Rest(frBuffer, bytesPerChunk)
  /\ sequence' = NextSequence(sequence)
  /\ srcLast' = <<>>
  /\ UNCHANGED <<clients, capture, srcClock, conn, gotReady, readyAt, sendFailed,
                 stream, readPos, snkVars>>

\* chunkStream: the blocks yielded once reader.read() resolves with done
RemainderNone(buf) == <<>>
Remainder(buf) == IF ByteLength(buf) > 0 THEN <<buf>> ELSE <<>>

\* reader.read() resolves with done: chunkStream yields what is left in
\* buffer, the loop body runs on it, the loop ends and capture.stop() runs
ReaderDone ==
  /\ capture = "running"
  /\ ByteLength(frBuffer) < bytesPerChunk
  /\ readPos = Len(stream)
  /\ LET last == Remainder(frBuffer) IN
       /\ yielded' = yielded \o last
       /\ sent' = IF last = <<>> THEN sent ELSE Broadcast(sent, last[1], sequence)
       /\ sequence' = IF last = <<>> THEN sequence ELSE NextSequence(sequence)
  /\ capture' = "ended"
  /\ srcLast' = <<>>
  /\ UNCHANGED <<clients, srcClock, conn, gotReady, readyAt, sendFailed, stream,
                 readPos, frBuffer, snkVars>>

\* the source's monotonic clock advances
SrcTick ==
  /\ srcClock < MaxSrcClock
  /\ srcClock' = srcClock + 1
  /\ srcLast' = <<>>
  /\ UNCHANGED <<clients, sequence, capture, conn, sent, gotReady, readyAt,
                 sendFailed, capVars, snkVars>>

\* what a sink may send to the source
SrcInputs ==
  {Frame(SyncRequest(0)), Frame(ClientReady), Frame(ErrorMessage), Garbage}

NextSource ==
  \/ \E c \in Conns : WsOpen(c) /\ UNCHANGED <<net, writes>>
  \/ \E c \in Conns : WsClose(c) /\ UNCHANGED <<net, writes>>
  \/ \E c \in Conns, data \in SrcInputs : WsMessage(c, data, 0, "plain")
       /\ UNCHANGED <<net, writes>>
  \/ \E failed \in SUBSET Conns : processAudioStream(failed, MaxBlocks, "plain")
       /\ UNCHANGED <<net, writes>>
  \/ CaptureEnd /\ UNCHANGED <<net, writes>>

\* the source with the handled message on record, every send succeeding
NextSourceTraced ==
  \/ \E c \in Conns : WsOpen(c) /\ UNCHANGED <<net, writes>>
  \/ \E c \in Conns : WsClose(c) /\ UNCHANGED <<net, writes>>
  \/ \E c \in Conns, data \in SrcInputs : WsMessage(c, data, 0, "messages")
       /\ UNCHANGED <<net, writes>>
  \/ processAudioStream({}, MaxTracedBlocks, "messages") /\ UNCHANGED <<net, writes>>
  \/ CaptureEnd /\ UNCHANGED <<net, writes>>

\* the source with failed sends and ready times on record, its sinks
\* sending client_ready only
NextSourceFaults ==
  \/ \E c \in Conns : WsOpen(c) /\ UNCHANGED <<net, writes>>
  \/ \E c \in Conns : WsClose(c) /\ UNCHANGED <<net, writes>>
  \/ \E c \in Conns : WsMessage(c, Frame(ClientReady), 0, "faults") /\ UNCHANGED <<net, writes>>
  \/ \E failed \in SUBSET Conns : processAudioStream(failed, MaxFaultBlocks, "faults")
       /\ UNCHANGED <<net, writes>>
  \/ CaptureEnd /\ UNCHANGED <<net, writes>>

\* sync_requests a sink may send: two values of t1
SyncInputs == {Frame(SyncRequest(0)), Frame(SyncRequest(7))}

\* the source answering the sync_requests of two sinks and framing one
\* block, with the handled message on record; its clock moves while it
\* answers
NextSourceSync ==
  \/ \E c \in {1, 2} : WsOpen(c) /\ UNCHANGED <<net, writes>>
  \/ \E c \in {1, 2} : WsClose(c) /\ UNCHANGED <<net, writes>>
  \/ \E c \in {1, 2}, data \in SyncInputs \cup {Frame(ClientReady)}, d \in {0, 1} :
       WsMessage(c, data, d, "sync") /\ UNCHANGED <<net, writes>>
  \/ processAudioStream({}, 1, "sync") /\ UNCHANGED <<net, writes>>

\* the source framing a capture stream read by read, with one sink that
\* sends client_ready only, every send succeeding
NextSourceFramed ==
  \/ WsOpen(1) /\ UNCHANGED <<net, writes>>
  \/ WsClose(1) /\ UNCHANGED <<net, writes>>
  \/ WsMessage(1, Frame(ClientReady), 0, "faults") /\ UNCHANGED <<net, writes>>
  \/ ReaderRead /\ UNCHANGED <<net, writes>>
  \/ YieldChunk /\ UNCHANGED <<net, writes>>
  \/ ReaderDone /\ UNCHANGED <<net, writes>>

(* ------------------------------------------------------------------ *)
(* Exact fractions <<numerator, denominator>>, denominator > 0        *)
(* ------------------------------------------------------------------ *)
RECURSIVE Gcd(_, _)
Gcd(a, b) == IF b = 0 THEN a ELSE Gcd(b, a % b)
Abs(x) == IF x < 0 THEN -x ELSE x
Rat(n, d) ==
  LET g == Gcd(Abs(n), Abs(d))
      s == IF d < 0 THEN -1 ELSE 1
  IN <<(s * n) \div g, (s * d) \div g>>
RInt(n) == <<n, 1>>
RAdd(a, b) == Rat(a[1] * b[2] + b[1] * a[2], a[2] * b[2])
RSub(a, b) == Rat(a[1] * b[2] - b[1] * a[2], a[2] * b[2])
RMul(a, b) == Rat(a[1] * b[1], a[2] * b[2])
RDiv(a, b) == Rat(a[1] * b[2], a[2] * b[1])
\* comparison by whole parts first, so that the products stay small
RLt(a, b) ==
  LET qa == a[1] \div a[2]
      qb == b[1] \div b[2]
  IN IF qa # qb THEN qa < qb
     ELSE (a[1] % a[2]) * b[2] < (b[1] % b[2]) * a[2]
RLe(a, b) == ~RLt(b, a)

(* ------------------------------------------------------------------ *)
(* Clock synchronisation: sync.ts                                     *)
(* ------------------------------------------------------------------ *)
createSyncState ==
  [offset |-> RInt(0), roundTripTime |-> 0, samples |-> <<>>,
   lastSyncTime |-> 0, isSynced |-> FALSE]

\* calculateWeightedOffset: weight = 1 / Math.max(sample.rtt, 0.1)
Weight(sample) == IF sample.rtt >= 1 THEN Rat(1, sample.rtt) ELSE RInt(10)

RECURSIVE TotalWeight(_)
TotalWeight(samples) ==
  IF samples = <<>> THEN RInt(0)
  ELSE RAdd(Weight(Head(samples)), TotalWeight(Tail(samples)))

RECURSIVE WeightedSum(_)
WeightedSum(samples) ==
  IF samples = <<>> THEN RInt(0)
  ELSE RAdd(RMul(Head(samples).offset, Weight(Head(samples))),
            WeightedSum(Tail(samples)))

calculateWeightedOffset(samples) ==
  IF Len(samples) = 0 THEN RInt(0)
  ELSE IF Len(samples) = 1 THEN samples[1].offset
  ELSE RDiv(WeightedSum(samples), TotalWeight(samples))

\* [...state.samples, sample].slice(-CONFIG.syncSamples)
LastSamplesAll(all) == all
LastSamples(all) ==
  IF Len(all) <= syncSamples THEN all
  ELSE SubSeq(all, Len(all) - syncSamples + 1, Len(all))

\* processSyncResponse: t4 = now()
processSyncResponseOneWay(response, state, t4) ==
  LET rtt == t4 - response.t1 - (response.t3 - response.t2)
      offset == RInt(response.t2 - response.t1)
      sample == [offset |-> offset, rtt |-> rtt, timestamp |-> t4]
      samples == LastSamples(Append(state.samples, sample))
  IN [offset |-> calculateWeightedOffset(samples), roundTripTime |-> rtt,
      samples |-> samples, lastSyncTime |-> t4, isSynced |-> TRUE]
SyncedToggle(response, state, t4) ==
  [state EXCEPT !.isSynced = ~@, !.lastSyncTime = t4,
                !.samples = Append(@, [offset |-> RInt(0), rtt |-> 0, timestamp |-> t4])]
processSyncResponse(response, state, t4) ==
  LET rtt == t4 - response.t1 - (response.t3 - response.t2)
      offset == Rat((response.t2 - response.t1) + (response.t3 - t4), 2)
      sample == [offset |-> offset, rtt |-> rtt, timestamp |-> t4]
      samples == LastSamples(Append(state.samples, sample))
  IN [offset |-> calculateWeightedOffset(samples), roundTripTime |-> rtt,
      samples |-> samples, lastSyncTime |-> t4, isSynced |-> TRUE]

toLocalTimeAhead(serverTime, state) == RAdd(RInt(serverTime), state.offset)
toLocalTime(serverTime, state) == RSub(RInt(serverTime), state.offset)

\* toServerTime, of a local time that is a fraction
toServerTime(localTime, state) == RAdd(localTime, state.offset)

\* needsResync
needsResyncAlways(state, now) == TRUE
needsResyncLax(state, now) ==
  IF ~state.isSynced THEN TRUE ELSE now - state.lastSyncTime > 2 * syncIntervalMs
needsResync(state, now) ==
  IF ~state.isSynced THEN TRUE ELSE now - state.lastSyncTime > syncIntervalMs

(* ------------------------------------------------------------------ *)
(* Sink: client.ts                                                    *)
(* ------------------------------------------------------------------ *)
\* a step that handles no message and sends none
Quiet == [got |-> "none", out |-> <<>>]

\* the record of a step, kept under mode "messages" only
Last(mode, got, out) ==
  IF mode \in {"messages", "resync"} THEN [got |-> got, out |-> out] ELSE Quiet

\* the sync exchanges after a step that sends sync_requests at the times
\* sends and accepts so many sync_responses, kept under mode "resync" only
Logged(mode, sends, accepts) ==
  IF mode = "resync"
    THEN [sent |-> syncLog.sent \o sends, accepted |-> syncLog.accepted + accepts]
    ELSE syncLog

\* startClient, up to the first suspension of playbackLoop
SnkInit ==
  /\ clock = 0
  /\ ws = "connecting"
  /\ isConnected = FALSE
  /\ sync = createSyncState
  /\ buffer = <<>>
  /\ playback = "null"
  /\ isPlaying = FALSE
  /\ lastSequence = -1
  /\ droppedChunks = 0
  /\ lateChunks = 0
  /\ pendingSyncT1 = <<>>
  /\ serverInfo = <<>>
  /\ nextTick = <<>>
  /\ pc = "startup"
  /\ currentTime = 0
  /\ chunksWritten = 0
  /\ shifted = <<>>
  /\ handled = 0
  /\ arrived = <<>>
  /\ snkLast = Quiet
  /\ syncLog = [sent |-> <<>>, accepted |-> 0]
  /\ writes = <<>>

\* insertSorted: midItem.playTime < item.playTime
BeforeNever(midItem, item) == FALSE
Before(midItem, item) == RLt(midItem.playTime, item.playTime)

\* insertSorted: the while loop; low and high are 0-based as in the code
RECURSIVE BinarySearch(_, _, _, _)
BinarySearch(buf, item, low, high) ==
  IF low < high
    THEN LET mid == (low + high) \div 2 IN
         IF Before(buf[mid + 1], item)
           THEN BinarySearch(buf, item, mid + 1, high)
           ELSE BinarySearch(buf, item, low, mid)
    ELSE low

\* insertSorted: buffer.splice(low, 0, item)
insertSorted(buf, item) ==
  LET low == BinarySearch(buf, item, 0, Len(buf)) IN
    SubSeq(buf, 1, low) \o <<item>> \o SubSeq(buf, low + 1, Len(buf))

\* handleAudioChunk: lastChunk.playTime - firstChunk.playTime <= maxBufferMs
FitsAlways(buf) == TRUE
Fits(buf) == RLe(buf[Len(buf)].playTime, RAdd(buf[1].playTime, RInt(maxBufferMs)))

\* handleAudioChunk: the overflow loop
RECURSIVE TrimBack(_)
TrimBack(buf) ==
  IF Len(buf) > 0 /\ ~Fits(buf) THEN TrimBack(SubSeq(buf, 1, Len(buf) - 1)) ELSE buf
RECURSIVE Trim(_)
Trim(buf) == IF Len(buf) > 0 /\ ~Fits(buf) THEN Trim(Tail(buf)) ELSE buf

\* handleAudioChunk: the sequence gap added to droppedChunks
GapSigned(chunk, last) ==
  IF last >= 0 /\ chunk.sequence # last + 1 THEN chunk.sequence - last - 1 ELSE 0
Gap(chunk, last) ==
  IF last >= 0 /\ chunk.sequence # last + 1 /\ chunk.sequence - last - 1 > 0
    THEN chunk.sequence - last - 1
    ELSE 0

\* handleAudioChunk: playTime
PlayTime(chunk, state) == RAdd(toLocalTime(chunk.timestamp, state), RInt(targetBufferMs))

\* handleAudioChunk: playTime < currentTime
IsLateOrNow(playTime, now) == RLe(playTime, RInt(now))
IsLateNever(playTime, now) == FALSE
IsLate(playTime, now) == RLt(playTime, RInt(now))

\* handleAudioChunk: the sink's buffer and counters after the chunk
AfterChunk(chunk) ==
  LET same == [buffer |-> buffer, lastSequence |-> lastSequence,
               droppedChunks |-> droppedChunks, lateChunks |-> lateChunks]
      playTime == PlayTime(chunk, sync)
      gapped == droppedChunks + Gap(chunk, lastSequence)
      inserted == insertSorted(buffer, [sequence |-> chunk.sequence,
                                        playTime |-> playTime, insertedAt |-> clock])
      trimmed == Trim(inserted)
  IN IF ~sync.isSynced THEN same
     ELSE IF IsLate(playTime, clock)
       THEN [buffer |-> buffer, lastSequence |-> chunk.sequence,
             droppedChunks |-> gapped, lateChunks |-> lateChunks + 1]
       ELSE [buffer |-> trimmed, lastSequence |-> chunk.sequence,
             droppedChunks |-> gapped + (Len(inserted) - Len(trimmed)),
             lateChunks |-> lateChunks]

\* what the source may send to the sink: the channel is ordered and the source
\* sends server_info when the connection opens, so it is the first message
\* env gives the server_infos (infos), the sync stamps (stamps), the chunk
\* timestamps relative to the clock (leads) and the chunk sequences relative
\* to lastSequence (steps); with env.ordered every chunk is stamped later
\* than the chunk handled before it
SnkInputs(env) ==
  IF serverInfo = <<>> THEN {Frame(m) : m \in env.infos} ELSE
  {Frame(ServerInfo), Frame(ErrorMessage), Garbage}
  \cup (LET t1 == IF pendingSyncT1 = <<>> THEN 0 ELSE pendingSyncT1[1]
        IN {Frame(SyncResponse(t1, t1 + st[1], t1 + st[1] + (clock - t1 - st[2]))) :
              st \in {x \in env.stamps : clock - t1 - x[2] >= 0}})
  \cup {Frame(AudioChunk(clock + lead, lastSequence + k, <<>>)) :
          lead \in {l \in env.leads :
                      /\ clock + l >= 0
                      /\ (env.ordered /\ arrived # <<>>) => clock + l > arrived[1].timestamp},
          k \in {j \in env.steps : lastSequence + j >= 0}}

\* sendReady and performSync send only while the socket is open
CanSend == ws = "open"

\* handleMessage: the messages the sink sends while it handles data; pending
\* is pendingSyncT1 before, after is state.sync after
RepliesReadyAlways(data, pending, after, playing) == <<"client_ready">>
RepliesReadyEarly(data, pending, after, playing) ==
  IF data.bytes = "ok" /\ data.msg.type \in {"server_info", "sync_response"}
    THEN <<"client_ready">> ELSE <<>>
Replies(data, pending, after, playing) ==
  IF /\ data.bytes = "ok"
     /\ data.msg.type = "sync_response"
     /\ pending # <<>>
     /\ after.isSynced /\ ~playing
    THEN <<"client_ready">> ELSE <<>>

\* ws.onmessage followed by handleMessage
OnMessage(data, mode, chunks) ==
  /\ ws = "open"
  /\ UNCHANGED <<srcVars, clock, ws, isConnected, playback, isPlaying, nextTick,
                 pc, currentTime, chunksWritten, shifted>>
  /\ IF data.bytes = "garbage"
       THEN UNCHANGED <<sync, buffer, lastSequence, droppedChunks, lateChunks,
                        pendingSyncT1, serverInfo, handled, arrived>>
     ELSE LET m == data.msg IN
       CASE m.type = "server_info" ->
              /\ serverInfo' = <<m>>
              /\ UNCHANGED <<sync, buffer, lastSequence, droppedChunks, lateChunks,
                             pendingSyncT1, handled, arrived>>
         [] m.type = "sync_response" ->
              IF pendingSyncT1 # <<>>
                THEN /\ sync' = processSyncResponse(m, sync, clock)
                     /\ pendingSyncT1' = <<>>
                     /\ UNCHANGED <<buffer, lastSequence, droppedChunks, lateChunks,
                                    serverInfo, handled, arrived>>
                ELSE UNCHANGED <<sync, buffer, lastSequence, droppedChunks,
                                 lateChunks, pendingSyncT1, serverInfo, handled,
                                 arrived>>
         [] m.type = "audio_chunk" ->
              /\ sync.isSynced => handled < chunks
              /\ LET r == AfterChunk(m) IN
                   /\ buffer' = r.buffer
                   /\ lastSequence' = r.lastSequence
                   /\ droppedChunks' = r.droppedChunks
                   /\ lateChunks' = r.lateChunks
              /\ handled' = IF sync.isSynced THEN handled + 1 ELSE handled
              /\ arrived' = IF sync.isSynced THEN <<m>> ELSE arrived
              /\ UNCHANGED <<sync, pendingSyncT1, serverInfo>>
         [] OTHER ->
              UNCHANGED <<sync, buffer, lastSequence, droppedChunks, lateChunks,
                          pendingSyncT1, serverInfo, handled, arrived>>
  /\ snkLast' = LET last == Last(mode,
                                  IF data.bytes = "garbage" THEN "garbage"
                                                            ELSE data.msg.type,
                                  Replies(data, pendingSyncT1, sync', isPlaying))
                IN IF mode = "sample"
                     THEN [got |-> data.msg.type, out |-> <<>>, frame |-> data]
                     ELSE last
  /\ syncLog' = Logged(mode, <<>>, IF /\ data.bytes = "ok"
                                       /\ data.msg.type = "sync_response"
                                       /\ pendingSyncT1 # <<>>
                                      THEN 1 ELSE 0)

\* ws.onopen: performSync, then setInterval
OnOpen(mode) ==
  /\ ws = "connecting"
  /\ snkLast' = Last(mode, "none", <<"sync_request">>)
  /\ syncLog' = Logged(mode, <<clock>>, 0)
  /\ ws' = "open"
  /\ isConnected' = TRUE
  /\ pendingSyncT1' = <<clock>>
  /\ nextTick' = <<clock + syncIntervalMs>>
  /\ UNCHANGED <<srcVars, clock, sync, buffer, playback, isPlaying, lastSequence,
                 droppedChunks, lateChunks, serverInfo, pc, currentTime,
                 chunksWritten, shifted, handled, arrived>>

\* the setInterval callback: if (needsResync(state.sync)) performSync(state)
TimerTick(mode) ==
  /\ nextTick # <<>>
  /\ snkLast' = Last(mode, "none", IF needsResync(sync, clock) /\ CanSend
                                      THEN <<"sync_request">> ELSE <<>>)
  /\ clock = nextTick[1]
  /\ nextTick' = <<nextTick[1] + syncIntervalMs>>
  /\ pendingSyncT1' = IF needsResync(sync, clock) /\ CanSend
                        THEN <<clock>> ELSE pendingSyncT1
  /\ syncLog' = Logged(mode, IF needsResync(sync, clock) /\ CanSend
                                THEN <<clock>> ELSE <<>>, 0)
  /\ UNCHANGED <<srcVars, clock, ws, isConnected, sync, buffer, playback, isPlaying,
                 lastSequence, droppedChunks, lateChunks, serverInfo, pc,
                 currentTime, chunksWritten, shifted, handled, arrived>>

\* ws.onclose followed by cleanup
OnClose ==
  /\ ws # "closed"
  /\ snkLast' = Quiet
  /\ ws' = "closed"
  /\ isConnected' = FALSE
  /\ playback' = IF playback = "started" THEN "stopped" ELSE playback
  /\ UNCHANGED <<srcVars, clock, sync, buffer, isPlaying, lastSequence,
                 droppedChunks, lateChunks, pendingSyncT1, serverInfo, nextTick, pc,
                 currentTime, chunksWritten, shifted, handled, arrived,
                 syncLog>>

\* playbackLoop: firstChunk.playTime > currentTime ends the drain
DueAlways(first, cur) == TRUE
DueNever(first, cur) == FALSE
Due(first, cur) == ~RLt(RInt(cur), first.playTime)

\* playbackLoop: the rest of an iteration, then await sleep(...).  The sleeps
\* (1 or 5 ms) are shorter than any step of the model's clock, so the loop
\* may resume at any later moment.
Sleep ==
  /\ pc' = "sleeping"
  /\ currentTime' = 0
  /\ chunksWritten' = 0
  /\ shifted' = <<>>

\* playbackLoop: the inner while loop from its test to the next await
Drain(cur, written) ==
  IF Len(buffer) > 0 /\ Due(buffer[1], cur)
    THEN /\ buffer' = Tail(buffer)
         /\ shifted' = <<[sequence |-> buffer[1].sequence,
                          playTime |-> buffer[1].playTime]>>
         /\ pc' = "writing"
         /\ currentTime' = cur
         /\ chunksWritten' = written
    ELSE /\ Sleep
         /\ UNCHANGED buffer

\* playbackLoop: the outer while loop from its test to the next await
Iterate ==
  IF isConnected
    THEN Drain(clock, 0)
    ELSE /\ pc' = "done"
         /\ UNCHANGED <<buffer, shifted, currentTime, chunksWritten>>

\* playbackLoop: the start-up test
startChunks == 2
CanStartWithOne == sync.isSynced /\ Len(buffer) >= 1
CanStart == sync.isSynced /\ Len(buffer) >= startChunks

\* playbackLoop resumes from sleep(5) before playback has started
StartupWake ==
  /\ pc = "startup"
  /\ snkLast' = Quiet
  /\ IF CanStart
       THEN /\ playback' = "started"
            /\ isPlaying' = TRUE
            /\ Iterate
       ELSE UNCHANGED <<playback, isPlaying, buffer, shifted, pc, currentTime,
                        chunksWritten>>
  /\ UNCHANGED <<srcVars, clock, ws, isConnected, sync, lastSequence, droppedChunks,
                 lateChunks, pendingSyncT1, serverInfo, nextTick, handled, arrived,
                 syncLog>>

\* playbackLoop resumes from the sleep that ends an iteration
PollWake ==
  /\ pc = "sleeping"
  /\ snkLast' = Quiet
  /\ Iterate
  /\ UNCHANGED <<srcVars, clock, ws, isConnected, sync, playback, isPlaying,
                 lastSequence, droppedChunks, lateChunks, pendingSyncT1, serverInfo,
                 nextTick, handled, arrived,
                 syncLog>>

\* playbackLoop resumes from await state.playback.write: resolved or thrown
WriteDone(ok, mode) ==
  /\ pc = "writing"
  /\ snkLast' = IF ok THEN Quiet ELSE Last(mode, "write_error", <<>>)
  /\ IF ok
       THEN Drain(currentTime, chunksWritten + 1)
       ELSE /\ Sleep
            /\ UNCHANGED buffer
  /\ UNCHANGED <<srcVars, clock, ws, isConnected, sync, playback, isPlaying,
                 lastSequence, droppedChunks, lateChunks, pendingSyncT1, serverInfo,
                 nextTick, handled, arrived,
                 syncLog>>

\* the sink's clock advances; a due interval callback runs before it goes on
Tick(d, limit) ==
  /\ clock < limit
  /\ snkLast' = Quiet
  /\ nextTick # <<>> => clock < nextTick[1]
  /\ LET t == IF nextTick # <<>> /\ clock + d > nextTick[1]
                THEN nextTick[1] ELSE clock + d
     IN clock' = IF t > limit THEN limit ELSE t
  /\ UNCHANGED <<srcVars, ws, isConnected, sync, buffer, playback, isPlaying,
                 lastSequence, droppedChunks, lateChunks, pendingSyncT1, serverInfo,
                 nextTick, pc, currentTime, chunksWritten, shifted, handled, arrived,
                 syncLog>>

\* the source a plain sink session runs against
Source(leads) ==
  [infos |-> {ServerInfo}, stamps |-> SyncStamps, leads |-> leads,
   steps |-> SeqSteps, ordered |-> FALSE]

\* one sink session against the source env, over limit milliseconds and at
\* most chunks audio_chunks
NextSinkIn(env, limit, chunks, mode) ==
  \/ OnOpen(mode) /\ UNCHANGED <<net, writes>>
  \/ \E data \in SnkInputs(env) : OnMessage(data, mode, chunks) /\ UNCHANGED <<net, writes>>
  \/ TimerTick(mode) /\ UNCHANGED <<net, writes>>
  \/ OnClose /\ UNCHANGED <<net, writes>>
  \/ StartupWake /\ UNCHANGED <<net, writes>>
  \/ PollWake /\ UNCHANGED <<net, writes>>
  \/ \E ok \in BOOLEAN : WriteDone(ok, mode) /\ UNCHANGED <<net, writes>>
  \/ \E d \in ClockSteps : Tick(d, limit) /\ UNCHANGED <<net, writes>>

Init == SrcInit /\ SnkInit

\* the jitter buffer and the playback loop under early, late and far chunks
NextSink == NextSinkIn(Source(ChunkLeads), MaxClock, MaxChunks, "plain")
SpecSink == Init /\ [][NextSink]_vars

\* the resync timer over a longer time, with chunks that are just in time
NextSinkSync == NextSinkIn(Source(SyncChunkLeads), MaxSyncClock, MaxChunks, "plain")
SpecSinkSync == Init /\ [][NextSinkSync]_vars

\* the sink with each step's messages on record, behind a source whose
\* server_info may differ from the sink's CONFIG
NextSinkTraced ==
  NextSinkIn([Source(SyncChunkLeads) EXCEPT !.infos = {ServerInfo, OtherServerInfo}],
             MaxTracedClock, MaxChunks, "messages")
SpecSinkTraced == Init /\ [][NextSinkTraced]_vars

\* the sequence accounting under chunks that arrive out of order or after a
\* loss, within the first sync interval
NextSinkGaps ==
  NextSinkIn([Source(GapChunkLeads) EXCEPT !.steps = GapSeqSteps],
             syncIntervalMs, MaxGapChunks, "plain")
SpecSinkGaps == Init /\ [][NextSinkGaps]_vars

\* a chunk stream in sequence order whose timestamps increase with the
\* sequence, over a time that lets the sink resync
NextSinkOrdered ==
  NextSinkIn([Source(OrderedChunkLeads) EXCEPT !.stamps = OrderedSyncStamps,
                                               !.ordered = TRUE],
             MaxSyncClock, MaxChunks, "plain")
SpecSinkOrdered == Init /\ [][NextSinkOrdered]_vars

\* a sink that sent its first sync_request at t1 and got server_info, at a
\* later time t4
SnkInitAt(t1, t4) ==
  /\ clock = t4
  /\ ws = "open"
  /\ isConnected = TRUE
  /\ sync = createSyncState
  /\ buffer = <<>>
  /\ playback = "null"
  /\ isPlaying = FALSE
  /\ lastSequence = -1
  /\ droppedChunks = 0
  /\ lateChunks = 0
  /\ pendingSyncT1 = <<t1>>
  /\ serverInfo = <<ServerInfo>>
  /\ nextTick = <<t1 + syncIntervalMs>>
  /\ pc = "startup"
  /\ currentTime = 0
  /\ chunksWritten = 0
  /\ shifted = <<>>
  /\ handled = 0
  /\ arrived = <<>>
  /\ snkLast = Quiet
  /\ syncLog = [sent |-> <<>>, accepted |-> 0]
  /\ writes = <<>>

\* one sync exchange with any timestamps: the request sent at t1, the
\* response stamped t2 and t3 by the source and handled at t4
InitSample ==
  /\ SrcInit
  /\ \E t1 \in 0..MaxStamp, t4 \in 0..MaxStamp : t1 <= t4 /\ SnkInitAt(t1, t4)
NextSinkSample ==
  \E t2 \in 0..MaxStamp, t3 \in 0..MaxStamp :
    /\ pendingSyncT1 # <<>>
    /\ OnMessage(Frame(SyncResponse(pendingSyncT1[1], t2, t3)), "sample", MaxChunks)
    /\ UNCHANGED <<net, writes>>
SpecSinkSample == InitSample /\ [][NextSinkSample]_vars

\* the overflow trim under chunks in sequence whose play times lie up to
\* 300 ms apart, within the first sync interval
NextSinkTrim ==
  NextSinkIn(Source(TrimChunkLeads), syncIntervalMs, MaxTrimChunks, "plain")
SpecSinkTrim == Init /\ [][NextSinkTrim]_vars

\* a step of the playback loop with the write it begins on record
Recorded ==
  /\ writes' = IF pc' = "writing" THEN Append(writes, shifted'[1]) ELSE writes
  /\ UNCHANGED net

\* a sink session with the begun writes on record
NextSinkPlayoutIn(env, limit, chunks) ==
  \/ OnOpen("plain") /\ UNCHANGED <<net, writes>>
  \/ \E data \in SnkInputs(env) : OnMessage(data, "plain", chunks)
       /\ UNCHANGED <<net, writes>>
  \/ TimerTick("plain") /\ UNCHANGED <<net, writes>>
  \/ OnClose /\ UNCHANGED <<net, writes>>
  \/ StartupWake /\ Recorded
  \/ PollWake /\ Recorded
  \/ \E ok \in BOOLEAN : WriteDone(ok, "plain") /\ Recorded
  \/ \E d \in ClockSteps : Tick(d, limit) /\ UNCHANGED <<net, writes>>

\* chunks arriving while the playback loop drains, over two sync intervals
\* with a resync between
NextSinkPlayout ==
  NextSinkPlayoutIn(Source(PlayoutChunkLeads), 2 * syncIntervalMs, MaxPlayoutChunks)
SpecSinkPlayout == Init /\ [][NextSinkPlayout]_vars

\* the same within the first sync interval, where every pending callback
\* and every resumption of the playback loop runs in the end and the clock
\* goes on
NextSinkDrain ==
  NextSinkPlayoutIn(Source(PlayoutChunkLeads), syncIntervalMs, MaxPlayoutChunks)
DrainFairness ==
  /\ WF_vars(TimerTick("plain") /\ UNCHANGED <<net, writes>>)
  /\ WF_vars(PollWake /\ Recorded)
  /\ WF_vars(\E ok \in BOOLEAN : WriteDone(ok, "plain") /\ Recorded)
  /\ WF_vars(\E d \in ClockSteps : Tick(d, syncIntervalMs) /\ UNCHANGED <<net, writes>>)
SpecSinkDrain == Init /\ [][NextSinkDrain]_vars /\ DrainFairness

\* the sync exchanges alone, with one kind of sync_response and no chunks,
\* for as long as syncSamples + 1 exchanges take at one exchange every two
\* sync intervals
WindowSource == [Source({}) EXCEPT !.stamps = {<<0, 0>>}]
WindowClock == (2 * syncSamples + 1) * syncIntervalMs
NextSinkWindow ==
  \/ OnOpen("resync") /\ UNCHANGED <<net, writes>>
  \/ \E data \in SnkInputs(WindowSource) : OnMessage(data, "resync", 0)
       /\ UNCHANGED <<net, writes>>
  \/ TimerTick("resync") /\ UNCHANGED <<net, writes>>
  \/ \E d \in ClockSteps : Tick(d, WindowClock) /\ UNCHANGED <<net, writes>>
SpecSinkWindow == Init /\ [][NextSinkWindow]_vars

\* the sync exchanges of a session on record, over three sync intervals and
\* the chunks that playback needs to start
NextSinkResync ==
  NextSinkIn(Source(SyncChunkLeads), MaxSyncClock, startChunks, "resync")
SpecSinkResync == Init /\ [][NextSinkResync]_vars

\* The source with its connections, its sinks' messages and the capture
\* stream in every interleaving.  No branch of server.ts reads the clock, so
\* here it stands still; SpecSourceTimed lets it run.
SpecSource == Init /\ [][NextSource]_vars

NextSourceTimed ==
  \/ NextSource
  \/ \E c \in Conns, data \in SrcInputs : WsMessage(c, data, 1, "plain")
       /\ UNCHANGED <<net, writes>>
  \/ SrcTick /\ UNCHANGED <<net, writes>>

SpecSourceTimed == Init /\ [][NextSourceTimed]_vars

SpecSourceTraced == Init /\ [][NextSourceTraced]_vars

SpecSourceFaults == Init /\ [][NextSourceFaults]_vars

SpecSourceSync == Init /\ [][NextSourceSync]_vars

\* the source on any of the capture streams Streams
InitFramed == (\E s \in Streams : SrcInitOn(s)) /\ SnkInit
SpecSourceFramed == InitFramed /\ [][NextSourceFramed]_vars

\* the source by itself or the sink by itself, each with its messages on
\* record: the side that takes the first step is the one that runs
NextTraced ==
  \/ SnkInit /\ NextSourceTraced
  \/ SrcInit /\ NextSinkTraced

SpecTraced == Init /\ [][NextTraced]_vars

(* ------------------------------------------------------------------ *)
(* One session: the source, one sink and the channel between them     *)
(* ------------------------------------------------------------------ *)
\* the messages the sink sends in a step, from their tags
Outgoing(tags) ==
  [i \in 1..Len(tags) |-> IF tags[i] = "sync_request" THEN SyncRequest(clock)
                                                      ELSE ClientReady]

\* ws.onopen on the sink: its sync_request goes onto the channel
SessionOpen ==
  /\ OnOpen("plain")
  /\ net' = [net EXCEPT !.up = @ \o Outgoing(<<"sync_request">>)]
  /\ UNCHANGED writes

\* the interval callback on the sink
SessionTimer ==
  /\ TimerTick("plain")
  /\ net' = [net EXCEPT !.up = @ \o Outgoing(IF needsResync(sync, clock) /\ CanSend
                                                THEN <<"sync_request">> ELSE <<>>)]
  /\ UNCHANGED writes

\* the sink handles the next message the source sent it
SessionDeliver ==
  /\ net.rcvd < Len(sent[1])
  /\ LET data == Frame(sent[1][net.rcvd + 1]) IN
       /\ OnMessage(data, "plain", MaxChunks)
       /\ net' = [rcvd |-> net.rcvd + 1,
                  up |-> net.up \o Outgoing(Replies(data, pendingSyncT1, sync', isPlaying))]
  /\ UNCHANGED writes

\* the source handles the next message the sink sent it
SessionHandle ==
  /\ net.up # <<>>
  /\ WsMessage(1, Frame(Head(net.up)), 0, "session")
  /\ net' = [net EXCEPT !.up = Tail(@)]
  /\ UNCHANGED writes

\* the channel opens, stays open and delivers every message in order; the
\* sink's clock runs through its first sync interval
NextSession ==
  \/ WsOpen(1) /\ UNCHANGED <<net, writes>>
  \/ SessionOpen
  \/ SessionTimer
  \/ SessionDeliver
  \/ SessionHandle
  \/ processAudioStream({}, MaxBlocks, "session") /\ UNCHANGED <<net, writes>>
  \/ StartupWake /\ UNCHANGED <<net, writes>>
  \/ PollWake /\ UNCHANGED <<net, writes>>
  \/ \E ok \in BOOLEAN : WriteDone(ok, "plain") /\ UNCHANGED <<net, writes>>
  \/ \E d \in ClockSteps : Tick(d, syncIntervalMs) /\ UNCHANGED <<net, writes>>

\* the step of SessionDeliver as the channel shows it: ws.onmessage runs on
\* the next frame of the connection, and handleMessage sends at most
\* client_ready
Delivery ==
  /\ net.rcvd < Len(sent[1])
  /\ ws = "open"
  /\ (sent[1][net.rcvd + 1].type = "audio_chunk" /\ sync.isSynced)
       => handled < MaxChunks
  /\ \E reply \in {<<>>, <<ClientReady>>} :
       net' = [rcvd |-> net.rcvd + 1, up |-> net.up \o reply]

\* every handler whose event is pending runs in the end: the open handlers
\* and the message handlers of both sides
SessionFairness ==
  /\ WF_vars(WsOpen(1) /\ UNCHANGED <<net, writes>>)
  /\ WF_vars(SessionOpen)
  /\ WF_net(Delivery)
  /\ WF_vars(SessionHandle)

SpecSession == Init /\ [][NextSession]_vars /\ SessionFairness

(* ------------------------------------------------------------------ *)
(* Properties of the source                                           *)
(* ------------------------------------------------------------------ *)
\* the step puts an audio_chunk on connection c
ChunkSentTo(c) ==
  /\ Len(sent'[c]) = Len(sent[c]) + 1
  /\ IsChunk(sent'[c][Len(sent'[c])])

Chunks(c) == SelectSeq(sent[c], IsChunk)

\* C1: an audio_chunk is sent only to a sink that, at the moment of the send,
\* is in the sink table with its ready flag set: its connection is open (no
\* close was handled) and a client_ready from it was handled before.
C1_ChunkOnlyToReadySink ==
  [][\A c \in Conns :
       ChunkSentTo(c) => /\ c \in DOMAIN clients
                         /\ clients[c].isReady
                         /\ conn[c] = "open"
                         /\ gotReady[c]]_vars

\* every block went out, one sink got a chunk, and another one that is in
\* the table and not ready got none
C1_Witness ==
  \E c, d \in Conns :
    /\ Len(Chunks(c)) > 0
    /\ d \in DOMAIN clients /\ ~clients[d].isReady /\ Chunks(d) = <<>>
    /\ sequence = MaxBlocks

\* C2: the sequence counter starts at 0, a block is stamped with the counter
\* and the counter then grows by exactly 1, so the sequence numbers of the
\* chunks sent to one sink are strictly increasing, whatever is interleaved.
C2_SequenceIncreasing ==
  /\ sequence = 0
  /\ [][/\ sequence' \in {sequence, sequence + 1}
        /\ \A c \in Conns :
             ChunkSentTo(c) => /\ sent'[c][Len(sent'[c])].sequence = sequence
                               /\ sequence' = sequence + 1]_vars
  /\ [](\A c \in Conns : \A i, j \in 1..Len(Chunks(c)) :
          i < j => Chunks(c)[i].sequence < Chunks(c)[j].sequence)

\* a sink got two chunks with a sync_response between them
C2_Witness ==
  \E c \in Conns : \E i, j, k \in 1..Len(sent[c]) :
    /\ i < j /\ j < k
    /\ IsChunk(sent[c][i]) /\ IsChunk(sent[c][k])
    /\ sent[c][j].type = "sync_response"

\* C10: when a connection opens the source adds its record with the ready
\* flag cleared and sends server_info; on every connection server_info is
\* the first message, before every sync_response and every audio_chunk.
C10_ServerInfoFirst ==
  /\ [][\A c \in Conns :
          (conn[c] = "none" /\ conn'[c] = "open")
            => /\ c \in DOMAIN clients' /\ ~clients'[c].isReady
               /\ sent'[c] = <<ServerInfo>>]_vars
  /\ [](\A c \in Conns : \A i \in 1..Len(sent[c]) :
          /\ sent[c][i].type = "server_info" <=> i = 1
          /\ conn[c] # "none")

\* a connection that carried server_info, then a sync_response and a chunk
C10_Witness ==
  \E c \in Conns :
    /\ Len(sent[c]) >= 3
    /\ sent[c][1].type = "server_info"
    /\ \E i, j \in 2..Len(sent[c]) :
         sent[c][i].type = "sync_response" /\ IsChunk(sent[c][j])

\* sink c is in the table with its ready flag set
IsReady(cl, c) == c \in DOMAIN cl /\ cl[c].isReady

\* the step handles a message with this tag from connection c
Handled(c, tag) == srcLast' = <<c, tag>> /\ srcLast' # srcLast

\* C11: a sink's ready flag becomes true only in a step that handles a
\* client_ready from its own connection, no step sets it back to false while
\* the sink is in the table, and a client_ready from a sink that sent one
\* before leaves the table, the sequence and the channels as they are.
C11_ReadyByOwnClientReady ==
  [][\A c \in Conns :
       /\ (IsReady(clients', c) /\ ~IsReady(clients, c)) => Handled(c, "client_ready")
       /\ (IsReady(clients, c) /\ c \in DOMAIN clients') => IsReady(clients', c)
       /\ (Handled(c, "client_ready") /\ gotReady[c])
            => UNCHANGED <<clients, sequence, capture, conn, sent>>]_vars

\* a sink that already got a chunk, so was ready, had one more client_ready
\* handled while another sink in the table is not ready
C11_Witness ==
  \E c, d \in Conns :
    /\ srcLast = <<c, "client_ready">>
    /\ Chunks(c) # <<>>
    /\ IsReady(clients, c)
    /\ d \in DOMAIN clients /\ ~clients[d].isReady

\* C12: a client_ready handled after the sink's close changes nothing: the
\* table gets no entry for the sink, no ready flag changes, and nothing more
\* is sent on the closed connection.
C12_ReadyAfterCloseIgnored ==
  /\ [][\A c \in Conns :
          (conn[c] = "closed" /\ Handled(c, "client_ready"))
            => /\ c \notin DOMAIN clients'
               /\ UNCHANGED <<clients, sequence, capture, conn, sent>>]_vars
  /\ [][\A c \in Conns : conn[c] = "closed" => sent'[c] = sent[c]]_vars
  /\ [](\A c \in Conns : conn[c] = "closed" => c \notin DOMAIN clients)

\* the last step handled a client_ready from a closed connection that never
\* got a chunk, with another sink ready in the table
C12_Witness ==
  \E c, d \in Conns :
    /\ conn[c] = "closed"
    /\ srcLast = <<c, "client_ready">>
    /\ Chunks(c) = <<>>
    /\ IsReady(clients, d)

\* the step's send of the block to sink c throws
FailedNow(c) == sendFailed'[c] # sendFailed[c]

\* C13: when the send of a chunk to one ready sink fails, every other ready
\* sink whose send does not fail gets that chunk, the loop goes on (the
\* capture keeps running, the table is as it was) and the counter moves on by
\* one, so the next block carries the failed block's sequence plus one.
C13_SendFailureIsolated ==
  /\ [][\A c \in Conns :
          FailedNow(c)
            => /\ sendFailed'[c] = sendFailed[c] \cup {sequence}
               /\ sent'[c] = sent[c]
               /\ sequence' = sequence + 1
               /\ capture' = "running"
               /\ clients' = clients
               /\ \A d \in Conns :
                    (IsReady(clients, d) /\ ~FailedNow(d))
                      => /\ ChunkSentTo(d)
                         /\ sent'[d][Len(sent'[d])].sequence = sequence]_vars
  /\ [][\A c \in Conns :
          ChunkSentTo(c) => sent'[c][Len(sent'[c])].sequence = sequence]_vars
  /\ [](\A c \in Conns : \A k \in sendFailed[c] : k < sequence)

\* the send of block k to sink c failed while sink d got it, and c got the
\* next block, stamped k + 1
C13_Witness ==
  \E c, d \in Conns : \E k \in sendFailed[c] :
    /\ \E i \in 1..Len(Chunks(d)) : Chunks(d)[i].sequence = k
    /\ \E i \in 1..Len(Chunks(c)) : Chunks(c)[i].sequence = k + 1

\* C14: the source stamps blocks whether or not a sink is connected or ready;
\* a sink that becomes ready when the blocks 0..k are stamped (the counter
\* is k + 1) gets as its first chunk a sequence >= k + 1, and the sequences
\* it gets afterwards grow.
C14_LateJoinerSequence ==
  /\ []((capture = "running" /\ sequence < MaxFaultBlocks)
          => ENABLED (sequence' = sequence + 1
                      /\ processAudioStream({}, MaxFaultBlocks, "faults")))
  /\ [][\A c \in Conns :
          (IsReady(clients', c) /\ ~IsReady(clients, c))
            => readyAt'[c] = sequence /\ Chunks(c) = <<>>]_vars
  /\ [](\A c \in Conns :
          Chunks(c) # <<>> => /\ readyAt[c] >= 0
                              /\ Chunks(c)[1].sequence >= readyAt[c])
  /\ [](\A c \in Conns : \A i, j \in 1..Len(Chunks(c)) :
          i < j => Chunks(c)[i].sequence < Chunks(c)[j].sequence)

\* a sink became ready after the first block was stamped, with no sink ready
\* before it, and then got a chunk
C14_Witness ==
  \E c \in Conns :
    /\ readyAt[c] >= 1
    /\ Chunks(c) # <<>>
    /\ \A d \in Conns \ {c} : readyAt[d] = -1

(* ------------------------------------------------------------------ *)
(* Properties of the sink                                             *)
(* ------------------------------------------------------------------ *)
\* the step shifts a chunk off the buffer and begins its write
WriteStart ==
  /\ pc' = "writing"
  /\ pc # "writing" \/ chunksWritten' = chunksWritten + 1

\* the step handles an audio_chunk while the sink is converged
ChunkHandled == handled' = handled + 1

\* the local play time of the chunk the step handles
ArrivedPlayTime == PlayTime(arrived'[1], sync)

\* the step accepts a sync_response
SampleAccepted == pendingSyncT1 # <<>> /\ pendingSyncT1' = <<>>

\* C3: the playback loop begins the write of a chunk only when the local
\* clock has reached the chunk's play time.
C3_NoWriteBeforePlayTime ==
  [][WriteStart => /\ shifted' # <<>>
                   /\ RLe(shifted'[1].playTime, RInt(clock))
                   /\ buffer' = Tail(buffer)
                   /\ shifted'[1].playTime = buffer[1].playTime]_vars

\* a chunk is written exactly at its play time while the next one, not yet
\* due, stays in the buffer
C3_Witness ==
  /\ pc = "writing"
  /\ shifted[1].playTime = RInt(clock)
  /\ Len(buffer) > 0
  /\ RLt(RInt(clock), buffer[1].playTime)

\* C4: whenever the buffer is not empty, the play times of its last and its
\* first chunk differ by at most maxBufferMs.
C4_BufferSpanBounded ==
  Len(buffer) > 0 =>
    RLe(buffer[Len(buffer)].playTime, RAdd(buffer[1].playTime, RInt(maxBufferMs)))

\* the trim dropped a chunk (no sequence number was skipped and none was late)
\* and left the chunk that had just arrived
C4_Witness ==
  /\ droppedChunks > 0
  /\ lateChunks = 0
  /\ lastSequence = handled - 1
  /\ Len(buffer) > 0
  /\ buffer[Len(buffer)].sequence = lastSequence

\* C5: the buffer is ordered by play time, non-decreasing from the front, after
\* every insertion, in whatever order chunks arrive and whatever offset a
\* resync has set in between.
C5_BufferSorted ==
  \A i, j \in 1..Len(buffer) :
    i < j => RLe(buffer[i].playTime, buffer[j].playTime)

\* a chunk that arrived later was inserted in front of an earlier one
C5_Witness ==
  /\ Len(buffer) >= 2
  /\ buffer[1].sequence > buffer[2].sequence
  /\ RLt(buffer[1].playTime, buffer[2].playTime)

\* C6 as the claim has it: every chunk in the buffer had, when it was inserted,
\* a play time strictly greater than the local clock.
C6_StrictlyAfterClock ==
  \A i \in 1..Len(buffer) :
    RLt(RInt(buffer[i].insertedAt), buffer[i].playTime)

\* C6: every chunk inserted into the buffer has a play time greater than or
\* equal to the local clock read at the insertion; a chunk whose play time
\* equals that clock is not late and is inserted.
C6_NotBeforeClock ==
  /\ [](\A i \in 1..Len(buffer) :
          RLe(RInt(buffer[i].insertedAt), buffer[i].playTime))
  /\ [][(ChunkHandled /\ lateChunks' = lateChunks)
          => RLe(RInt(clock), ArrivedPlayTime)]_vars
  /\ [][(ChunkHandled /\ ArrivedPlayTime = RInt(clock))
          => /\ lateChunks' = lateChunks
             /\ \/ droppedChunks' > droppedChunks
                \/ \E i \in 1..Len(buffer') :
                     /\ buffer'[i].sequence = arrived'[1].sequence
                     /\ buffer'[i].playTime = RInt(clock)]_vars

\* the buffer holds a chunk whose play time was the clock at its insertion
C6_Witness ==
  \E i \in 1..Len(buffer) : buffer[i].playTime = RInt(buffer[i].insertedAt)

\* C7: a chunk that reaches a converged sink with a play time before the
\* local clock is not inserted: the buffer stays as it is, lateChunks grows by
\* one and droppedChunks grows only by the sequence numbers skipped; so the
\* buffer never holds a chunk whose play time was before its insertion.
C7_LateChunkDropped ==
  /\ [][(ChunkHandled /\ RLt(ArrivedPlayTime, RInt(clock)))
          => /\ buffer' = buffer
             /\ lateChunks' = lateChunks + 1
             /\ droppedChunks' = droppedChunks + Gap(arrived'[1], lastSequence)
             /\ lastSequence' = arrived'[1].sequence]_vars
  /\ [](\A i \in 1..Len(buffer) :
          ~RLt(buffer[i].playTime, RInt(buffer[i].insertedAt)))

\* before playback began, the last chunk was late and left a buffer that is
\* not empty as it was
C7_Witness ==
  /\ lateChunks > 0
  /\ droppedChunks = 0
  /\ pc = "startup"
  /\ Len(buffer) > 0
  /\ arrived # <<>>
  /\ \A i \in 1..Len(buffer) : buffer[i].sequence # arrived[1].sequence

\* C8: isSynced is false at first, becomes true when the first sync_response
\* is accepted, and is never false again, whatever else the sink handles.
C8_SyncedMonotone ==
  /\ ~sync.isSynced
  /\ [][sync.isSynced => sync'.isSynced]_vars
  /\ [][SampleAccepted <=> sync' # sync]_vars
  /\ [][SampleAccepted => sync'.isSynced]_vars
  /\ [](sync.isSynced <=> sync.samples # <<>>)

\* a converged sink after a second sample, a chunk and the close
C8_Witness ==
  /\ sync.isSynced
  /\ Len(sync.samples) >= 2
  /\ handled > 0
  /\ ws = "closed"

\* C9: on a converged sink whose connection is open, the last sample was
\* accepted at most 2 * syncIntervalMs ago, or a sync_request has been sent
\* since and waits for its response.
C9_ResyncInTime ==
  (ws = "open" /\ isConnected /\ sync.isSynced)
    => \/ clock - sync.lastSyncTime <= 2 * syncIntervalMs
       \/ pendingSyncT1 # <<>>

\* the last sample is exactly 2 * syncIntervalMs old and no request is pending
C9_Witness ==
  /\ ws = "open" /\ isConnected /\ sync.isSynced
  /\ clock - sync.lastSyncTime = 2 * syncIntervalMs
  /\ pendingSyncT1 = <<>>

\* the step sends a client_ready
ReadySent ==
  /\ snkLast' # snkLast
  /\ \E i \in 1..Len(snkLast'.out) : snkLast'.out[i] = "client_ready"

\* C15: the sink sends client_ready only in a step that accepts a
\* sync_response, converged when it sends; it sends none while not converged.
C15_ReadyOnlyWhenSynced ==
  /\ [][ReadySent => /\ SampleAccepted
                     /\ sync'.isSynced
                     /\ sync'.samples # <<>>
                     /\ ws = "open"]_vars
  /\ []((\E i \in 1..Len(snkLast.out) : snkLast.out[i] = "client_ready")
          => sync.isSynced)

\* the sink has just sent client_ready on accepting its first sample
C15_Witness ==
  /\ snkLast = [got |-> "sync_response", out |-> <<"client_ready">>]
  /\ Len(sync.samples) = 1
  /\ serverInfo = <<ServerInfo>>

\* C16: the sink starts the playback process and sets isPlaying only in a
\* step taken when it is converged and the buffer holds at least 2 chunks;
\* until then the playback loop shifts no chunk off the buffer (only the trim
\* removes) and writes nothing.
C16_PlaybackStartsWithTwo ==
  /\ [][(playback = "null" /\ playback' # "null")
          => /\ sync.isSynced /\ Len(buffer) >= 2
             /\ playback' = "started" /\ isPlaying']_vars
  /\ [][playback' = "null" => (buffer' = buffer \/ ChunkHandled)]_vars
  /\ [](playback = "null" => (~isPlaying /\ pc = "startup" /\ shifted = <<>>))
  /\ [](isPlaying => playback # "null")

\* playback has started and the first chunk is being written while the
\* second one is in the buffer
C16_Witness ==
  /\ playback = "started" /\ isPlaying
  /\ pc = "writing"
  /\ ws = "open"
  /\ Len(buffer) >= 1

\* C17 as the claim has it: once the channel is closed no playback process
\* is started and not stopped.
C17_PlaybackReleasedOnClose ==
  ws = "closed" => playback # "started"

\* C18 as the claim has it: once the channel is closed the buffer is empty.
C18_BufferDroppedOnClose ==
  ws = "closed" => buffer = <<>>

\* the step handles a message that fails to decode or has a tag the
\* receiver does not handle
SrcMalformed ==
  /\ srcLast' # srcLast /\ srcLast' # <<>>
  /\ srcLast'[2] \in {"garbage", "error", "server_info", "sync_response", "audio_chunk"}
SnkMalformed ==
  /\ snkLast' # snkLast
  /\ snkLast'.got \in {"garbage", "error", "sync_request", "client_ready"}

\* C19: on the source and on the sink, a message that fails to decode or
\* whose tag the receiver does not handle changes no session state, is
\* answered by no message, and leaves the channel open; valid messages that
\* follow are handled as usual.
C19_MalformedIgnored ==
  /\ [][SrcMalformed => UNCHANGED <<clients, sequence, capture, conn, sent, gotReady>>]_vars
  /\ [][SnkMalformed => /\ snkLast'.out = <<>>
                        /\ UNCHANGED <<ws, isConnected, sync, buffer, lastSequence,
                                       droppedChunks, lateChunks, pendingSyncT1,
                                       serverInfo, playback, isPlaying>>]_vars
  /\ [](srcLast # <<>> /\ srcLast[2] = "garbage" => ENABLED (\E c \in Conns :
          WsMessage(c, Frame(ClientReady), 0, "messages")))
  /\ [](snkLast.got = "garbage" => ENABLED (\E data \in SnkInputs(Source(SyncChunkLeads)) :
          data.bytes = "ok" /\ OnMessage(data, "messages", MaxChunks)))

\* the sink, converged and with a chunk in its buffer, has just handled a
\* message that failed to decode
C19_Witness ==
  /\ snkLast.got = "garbage"
  /\ sync.isSynced
  /\ buffer # <<>>
  /\ ws = "open"

\* the source has just handled a message that failed to decode, from a sink
\* that is ready and got a chunk
C19_SourceWitness ==
  \E c \in Conns :
    /\ srcLast = <<c, "garbage">>
    /\ IsReady(clients, c)
    /\ Chunks(c) # <<>>

\* C20 as the claim has it: a sink that got a server_info whose constants are
\* not its own has closed the channel, buffers nothing, starts no playback
\* and sends no client_ready.
C20_MismatchCloses ==
  (serverInfo # <<>> /\ serverInfo[1] # ServerInfo)
    => /\ ws = "closed"
       /\ buffer = <<>>
       /\ playback = "null"
       /\ \A i \in 1..Len(snkLast.out) : snkLast.out[i] # "client_ready"

\* the last step was a playback write that threw
WriteFailed == snkLast.got = "write_error"

\* C21 as the claim has it: when a write to the playback process has failed
\* the channel is closed (and playout has stopped).
C21_WriteFailureCloses ==
  WriteFailed => ws = "closed"

\* the frames the overflow loop removes in the step, which handles a chunk
Evicted == IF lateChunks' = lateChunks THEN Len(buffer) + 1 - Len(buffer') ELSE 0

\* droppedChunks and lastSequence after the chunks with the sequences seqs
\* are handled in this order, nothing being evicted
RECURSIVE CountGaps(_, _, _)
CountGaps(seqs, dropped, last) ==
  IF seqs = <<>> THEN [droppedChunks |-> dropped, lastSequence |-> last]
  ELSE CountGaps(Tail(seqs), dropped + Gap([sequence |-> Head(seqs)], last), Head(seqs))

\* C22 as the claim has it: a chunk with lastSequence >= 0 and a sequence
\* other than lastSequence + 1 adds sequence - lastSequence - 1 to
\* droppedChunks, also when it arrives out of order.
C22_GapAddedAlways ==
  [][ChunkHandled =>
       LET seq == arrived'[1].sequence
           gap == IF lastSequence >= 0 /\ seq # lastSequence + 1
                    THEN seq - lastSequence - 1 ELSE 0
       IN droppedChunks' = droppedChunks + gap + Evicted]_vars

\* C22: a chunk handled by a converged sink sets lastSequence to its
\* sequence, late or not, and adds sequence - lastSequence - 1 to
\* droppedChunks when that is positive and lastSequence >= 0; the first chunk
\* of a session and a chunk that arrives out of order add nothing.  Chunks
\* 0..9 followed by 20..29 give droppedChunks = 10 and lastSequence = 29.
C22_GapCounted ==
  /\ [][ChunkHandled =>
         LET seq == arrived'[1].sequence
             gap == IF lastSequence >= 0 /\ seq > lastSequence + 1
                      THEN seq - lastSequence - 1 ELSE 0
         IN /\ lastSequence' = seq
            /\ droppedChunks' = droppedChunks + gap + Evicted]_vars
  /\ [](CountGaps([i \in 1..20 |-> IF i <= 10 THEN i - 1 ELSE i + 9], 0, -1)
          = [droppedChunks |-> 10, lastSequence |-> 29])

\* the sink has counted a gap and then handled a chunk that arrived out of
\* order: a frame in its buffer has a higher sequence than the last chunk
C22_Witness ==
  /\ droppedChunks > 0
  /\ lateChunks = 0
  /\ Len(buffer) = handled
  /\ \E i \in 1..Len(buffer) : buffer[i].sequence > lastSequence

\* the sink has handled a first chunk whose sequence is not 0 and a late
\* chunk after it
C22_LateWitness ==
  /\ handled = 2
  /\ lateChunks = 1
  /\ Len(buffer) = 1
  /\ buffer[1].sequence = 2
  /\ lastSequence = 5
  /\ droppedChunks = 2

\* last.playTime - first.playTime <= maxBufferMs
SpanFits(buf) ==
  RLe(buf[Len(buf)].playTime, RAdd(buf[1].playTime, RInt(maxBufferMs)))

\* frames whose play times are spread evenly over 400 ms
TwentyFrames ==
  [i \in 1..20 |-> [sequence |-> i - 1, playTime |-> Rat(400 * (i - 1), 19),
                    insertedAt |-> 0]]

\* C23: the overflow loop that follows an insertion removes frames from the
\* front of the buffer only, adds 1 to droppedChunks for each, stops at the
\* first buffer whose span is at most maxBufferMs, keeps the frame with the
\* largest play time and leaves the buffer non-empty; of 20 frames spread
\* over 400 ms the last 10, with a span of at most 200 ms, remain.
C23_TrimFromFront ==
  /\ [][(ChunkHandled /\ lateChunks' = lateChunks) =>
         \E pos \in 0..Len(buffer) :
           LET item == [sequence |-> arrived'[1].sequence,
                        playTime |-> ArrivedPlayTime, insertedAt |-> clock]
               ins == SubSeq(buffer, 1, pos) \o <<item>>
                        \o SubSeq(buffer, pos + 1, Len(buffer))
               n == Len(ins) - Len(buffer')
               seq == arrived'[1].sequence
               gap == IF lastSequence >= 0 /\ seq > lastSequence + 1
                        THEN seq - lastSequence - 1 ELSE 0
           IN /\ n >= 0
              /\ Len(buffer') >= 1
              /\ buffer' = SubSeq(ins, n + 1, Len(ins))
              /\ droppedChunks' = droppedChunks + gap + n
              /\ SpanFits(buffer')
              /\ \A k \in 0..(n - 1) : ~SpanFits(SubSeq(ins, k + 1, Len(ins)))
              /\ \A i \in 1..Len(ins) :
                    RLe(ins[i].playTime, buffer'[Len(buffer')].playTime)]_vars
  /\ [](Trim(TwentyFrames) = SubSeq(TwentyFrames, 11, 20))

\* three chunks in sequence were handled in time, the third overflowed the
\* buffer and the loop removed one frame and left two
C23_Witness ==
  /\ handled = 3
  /\ lastSequence = 2
  /\ lateChunks = 0
  /\ droppedChunks = 1
  /\ Len(buffer) = 2
  /\ buffer[2].sequence = 2
  /\ buffer[2].insertedAt = clock

\* C24 as the claim has it: for a chunk stream delivered in sequence order
\* (timestamps increasing with the sequence), no frame is written after a
\* frame with a higher sequence, also when a resync between two arrivals
\* changes the offset; here for two writes of one drain.
C24_WrittenInSequence ==
  [][(pc = "writing" /\ WriteStart) => shifted'[1].sequence > shifted[1].sequence]_vars

(* ------------------------------------------------------------------ *)
(* Properties of the framer                                           *)
(* ------------------------------------------------------------------ *)
\* the byte arrays bs, concatenated in order
RECURSIVE ConcatAll(_)
ConcatAll(bs) == IF bs = <<>> THEN <<>> ELSE Concat(Head(bs), ConcatAll(Tail(bs)))

\* the length of the capture stream
StreamLength == ByteLength(ConcatAll(stream))

\* C25: for every capture stream and every split of it into reads, the
\* blocks chunkStream yields, concatenated, are the bytes read so far less
\* those still buffered, and the whole stream once it has ended; every block
\* but the last has chunkSize bytes, and a non-empty remainder at the end of
\* the stream is yielded as one last block of 1..chunkSize - 1 bytes.
C25_FramerKeepsBytes ==
  /\ capture = "running" =>
        Concat(ConcatAll(yielded), frBuffer) = ConcatAll(SubSeq(stream, 1, readPos))
  /\ \A i \in 1..Len(yielded) :
        /\ ByteLength(yielded[i]) \in 1..bytesPerChunk
        /\ (i < Len(yielded) \/ capture = "running")
             => ByteLength(yielded[i]) = bytesPerChunk
  /\ capture = "ended" =>
        /\ ConcatAll(yielded) = Run(0, StreamLength)
        /\ Len(yielded) = (StreamLength + bytesPerChunk - 1) \div bytesPerChunk
        /\ StreamLength % bytesPerChunk # 0
             => ByteLength(yielded[Len(yielded)]) = StreamLength % bytesPerChunk

\* a stream of several reads, one of them longer than a chunk, has ended
\* and its last block was a remainder
C25_Witness ==
  /\ capture = "ended"
  /\ Len(stream) >= 2
  /\ \E k \in 1..Len(stream) : ByteLength(stream[k]) > bytesPerChunk
  /\ \E k \in 1..Len(stream) : ByteLength(stream[k]) = 0
  /\ Len(yielded) >= 3
  /\ ByteLength(yielded[Len(yielded)]) < bytesPerChunk

\* the payloads of the audio_chunks sent to sink c, in the order sent
Payloads(c) == [i \in 1..Len(Chunks(c)) |-> Chunks(c)[i].data]

\* the capture stream was not empty and has ended, and sink c was ready
\* before the first block was stamped and is still connected
ReadyThroughout(c) ==
  /\ capture = "ended"
  /\ StreamLength > 0
  /\ readyAt[c] = 0
  /\ conn[c] = "open"
  /\ IsReady(clients, c)

\* C26 as the claim has it: such a sink was sent floor(L / bytesPerChunk) x
\* bytesPerChunk payload bytes, the prefix of that length of the stream.
C26_WholeChunksSent ==
  \A c \in Conns :
    ReadyThroughout(c) =>
      ConcatAll(Payloads(c)) = Run(0, (StreamLength \div bytesPerChunk) * bytesPerChunk)

\* C26: a sink that is ready and error-free for the whole of a non-empty
\* capture stream of length L is sent L payload bytes: the chunks carry
\* the sequences 0, 1, ... in order and their payloads, concatenated, are the
\* stream to its last byte, the remainder of L mod bytesPerChunk bytes
\* included.
C26_WholeStreamSent ==
  \A c \in Conns :
    ReadyThroughout(c) =>
      /\ \A i \in 1..Len(Chunks(c)) : Chunks(c)[i].sequence = i - 1
      /\ ConcatAll(Payloads(c)) = Run(0, StreamLength)
      /\ ByteLength(ConcatAll(Payloads(c))) = StreamLength

\* a sink was ready throughout a stream that ended in a remainder, after
\* at least two whole chunks
C26_Witness ==
  /\ ReadyThroughout(1)
  /\ StreamLength % bytesPerChunk # 0
  /\ Len(Chunks(1)) >= 3

\* the step handles a sync_request from the open connection c
SyncRequestHandled(c) ==
  /\ conn[c] = "open"
  /\ Len(srcLast') = 3
  /\ srcLast'[1] = c
  /\ srcLast'[2] = "sync_request"

\* C27: the step in which the source handles a sync_request from a sink
\* appends exactly one sync_response to that sink's channel, hence before
\* any later message of the sink is handled and in the order of the
\* requests; the response carries the request's t1 and t2 <= t3, and the
\* step changes no other channel, no entry or ready flag of the sink table
\* and not sequence.
C27_SyncAnswered ==
  [][\A c \in Conns :
       SyncRequestHandled(c) =>
         /\ Len(sent'[c]) = Len(sent[c]) + 1
         /\ SubSeq(sent'[c], 1, Len(sent[c])) = sent[c]
         /\ LET r == sent'[c][Len(sent'[c])] IN
              /\ r.type = "sync_response"
              /\ r.t1 = srcLast'[3].msg.t1
              /\ r.t2 = srcClock
              /\ r.t3 = srcClock'
              /\ r.t2 <= r.t3
         /\ \A d \in Conns \ {c} : sent'[d] = sent[d]
         /\ UNCHANGED <<clients, sequence, conn, capture>>]_vars

\* a ready sink that was sent a chunk has been answered twice, the second
\* request carrying the smaller t1 and answered while the clock moved
C27_Witness ==
  \E c \in Conns :
    /\ Len(srcLast) = 3
    /\ srcLast[1] = c
    /\ srcLast[2] = "sync_request"
    /\ IsReady(clients, c)
    /\ Chunks(c) # <<>>
    /\ LET rs == SelectSeq(sent[c], LAMBDA x : x.type = "sync_response") IN
         /\ Len(rs) = 2
         /\ rs[1].t1 = 7
         /\ rs[2].t1 = 0
         /\ rs[2].t2 < rs[2].t3

\* |x| of a fraction
RAbs(x) == <<Abs(x[1]), x[2]>>

\* C28: for a sync exchange with t1 <= t2 <= t3 <= t4 the sample that
\* processSyncResponse computes has rtt = (t4 - t1) - (t3 - t2) >= 0 and
\* offset = ((t2 - t1) + (t3 - t4)) / 2 with |offset| <= rtt/2 + |t2 - t3|/2.
C28_SampleBounded ==
  (snkLast.got = "sync_response" /\ sync.samples # <<>>) =>
    LET r == snkLast.frame.msg
        t4 == clock
        sample == sync.samples[Len(sync.samples)]
    IN (r.t1 <= r.t2 /\ r.t2 <= r.t3 /\ r.t3 <= t4) =>
         /\ sample.rtt = (t4 - r.t1) - (r.t3 - r.t2)
         /\ sample.rtt >= 0
         /\ sample.offset = Rat((r.t2 - r.t1) + (r.t3 - t4), 2)
         /\ RLe(RAbs(sample.offset),
                RAdd(Rat(sample.rtt, 2), Rat(Abs(r.t2 - r.t3), 2)))

\* an exchange with t1 < t2 < t3 < t4 whose outward leg was the longer one
\* has been accepted
C28_Witness ==
  /\ snkLast.got = "sync_response"
  /\ sync.isSynced
  /\ LET r == snkLast.frame.msg IN
       /\ r.t1 < r.t2 /\ r.t2 < r.t3 /\ r.t3 < clock
       /\ r.t2 - r.t1 > clock - r.t3
  /\ sync.samples[1].rtt > 0

\* C29: a converged sink gives a chunk it inserts the play time
\* chunk.timestamp - offset + targetBufferMs, offset being the estimate in
\* force when the chunk is handled and source time = local time + offset;
\* after the one exchange t1 = 0, t2 = 500, t3 = 500, t4 = 0 the estimate is
\* offset = 500 with rtt = 0, and a chunk stamped 520 gets play time 80.
C29_PlayTimeFromOffset ==
  /\ [][(ChunkHandled /\ Len(buffer') = Len(buffer) + 1) =>
         \E i \in 1..Len(buffer') :
           /\ buffer'[i].sequence = arrived'[1].sequence
           /\ buffer'[i].insertedAt = clock
           /\ buffer'[i].playTime =
                RAdd(RSub(RInt(arrived'[1].timestamp), sync.offset), RInt(targetBufferMs))
           /\ toServerTime(RSub(buffer'[i].playTime, RInt(targetBufferMs)), sync)
                = RInt(arrived'[1].timestamp)]_vars
  /\ [](LET state == processSyncResponse(SyncResponse(0, 500, 500), createSyncState, 0)
        IN /\ state.offset = RInt(500)
           /\ state.roundTripTime = 0
           /\ PlayTime(AudioChunk(520, 0, <<>>), state) = RInt(80))

\* the sink has just inserted a chunk under an estimate made of two samples
C29_Witness ==
  /\ Len(sync.samples) = 2
  /\ sync.offset = RInt(20)
  /\ arrived # <<>>
  /\ \E i \in 1..Len(buffer) :
       /\ buffer[i].sequence = arrived[1].sequence
       /\ buffer[i].insertedAt = clock
       /\ buffer[i].playTime = RInt(arrived[1].timestamp + 40)

\* C30: when the channel of a sink opens, stays open and delivers every
\* message in order, then under fairness the sink in the end accepts a
\* sync_response and sends client_ready, the source in the end sets the
\* sink's ready flag, which then stays set, and every block stamped from then
\* on is sent to that sink.
C30_EventuallyReady ==
  /\ <>(sync.isSynced /\ gotReady[1])
  /\ <>[]IsReady(clients, 1)
  /\ [][(IsReady(clients, 1) /\ sequence' # sequence) => ChunkSentTo(1)]_vars

\* the sink is converged and ready at the source, and has handled a chunk
\* that the source sent it after its client_ready
C30_Witness ==
  /\ sync.isSynced
  /\ IsReady(clients, 1)
  /\ Chunks(1) # <<>>
  /\ net.rcvd = Len(sent[1])
  /\ handled >= 1

\* C31: two frames of the buffer with equal playTime stand in the order of
\* their sequences, the lower sequence nearer the front
C31_TiesBySequence ==
  \A i \in 1..Len(buffer) : \A j \in 1..Len(buffer) :
    (i < j /\ buffer[i].playTime = buffer[j].playTime)
      => buffer[i].sequence < buffer[j].sequence

\* the step sends a sync_request
RequestSent == Len(syncLog'.sent) > Len(syncLog.sent)

\* the step is a run of the interval callback
IntervalFired == nextTick # <<>> /\ nextTick' # nextTick

\* C32: the sink sends one sync_request in the step that opens the channel;
\* every other sync_request is sent by the interval callback, which runs
\* every syncIntervalMs, at a run where the sink is not converged or the last
\* sample is more than syncIntervalMs old; two sync_requests are at least
\* syncIntervalMs apart; a run of the callback at which the last sample is
\* at most syncIntervalMs old sends nothing.
C32_SyncOnOpenAndTick ==
  /\ [][(ws = "connecting" /\ ws' = "open")
          => syncLog'.sent = <<clock>> /\ syncLog.sent = <<>>]_vars
  /\ [][(RequestSent /\ ws # "connecting")
          => /\ syncLog'.sent = Append(syncLog.sent, clock)
             /\ IntervalFired
             /\ clock = nextTick[1]
             /\ nextTick' = <<clock + syncIntervalMs>>
             /\ \/ ~sync.isSynced
                \/ clock - sync.lastSyncTime > syncIntervalMs]_vars
  /\ [][RequestSent <=> (\E i \in 1..Len(snkLast'.out) :
                           snkLast'.out[i] = "sync_request")]_vars
  /\ [](\A i \in 1..Len(syncLog.sent) : \A j \in 1..Len(syncLog.sent) :
          i < j => syncLog.sent[j] - syncLog.sent[i] >= syncIntervalMs)
  /\ [][(IntervalFired /\ sync.isSynced
            /\ clock - sync.lastSyncTime <= syncIntervalMs)
          => ~RequestSent]_vars

\* a request on open, none at the first run of the callback, where the
\* sample was fresh, and one at the second run
C32_Witness ==
  /\ syncLog.sent = <<0, 2 * syncIntervalMs>>
  /\ sync.isSynced
  /\ pendingSyncT1 = <<2 * syncIntervalMs>>

\* C33: the buffer of chunkStream never holds more than 2 * bytesPerChunk
\* bytes, whatever the sizes of the reads
C33_BufferBounded == ByteLength(frBuffer) <= 2 * bytesPerChunk

\* C34: the play times of the frames whose write has begun never decrease
\* in write order, and no frame of the buffer, whenever it arrived, has a
\* play time below that of a frame already written
C34_WritesInPlayOrder ==
  /\ \A i \in 1..Len(writes) : \A j \in 1..Len(writes) :
       i < j => RLe(writes[i].playTime, writes[j].playTime)
  /\ \A i \in 1..Len(writes) : \A k \in 1..Len(buffer) :
       RLe(writes[i].playTime, buffer[k].playTime)

\* a write is awaited and the buffer holds a chunk that arrived after the
\* iteration of the playback loop began
C34_Witness ==
  /\ pc = "writing"
  /\ writes # <<>>
  /\ \E k \in 1..Len(buffer) : buffer[k].insertedAt > currentTime

\* the frame with sequence q is in the buffer
Buffered(q) == \E k \in 1..Len(buffer) : buffer[k].sequence = q

\* the frame with sequence q is in the buffer and due before the clock stops
BufferedDue(q) ==
  \E k \in 1..Len(buffer) :
    buffer[k].sequence = q /\ RLe(buffer[k].playTime, RInt(syncIntervalMs))

\* C36: while the sink is playing, every frame of the buffer whose play time
\* the clock reaches leaves the buffer or the channel closes; a frame leaves
\* the buffer only by a write that begins at or after its play time or by
\* the step that handles an arriving chunk, whose trim evicts it.
C36_FramesLeave ==
  /\ \A q \in 0..MaxPlayoutChunks :
       (isPlaying /\ BufferedDue(q)) ~> (~Buffered(q) \/ ~isConnected)
  /\ [][\A q \in 0..MaxPlayoutChunks :
          (Buffered(q) /\ ~Buffered(q)')
            => \/ /\ pc' = "writing"
                  /\ writes' = Append(writes, shifted'[1])
                  /\ shifted'[1].sequence = q
                  /\ RLe(shifted'[1].playTime, RInt(clock))
               \/ /\ handled' = handled + 1
                  /\ Len(buffer') <= Len(buffer)]_vars

\* both frames that started playback have been written and the third has
\* arrived since
C36_Witness ==
  /\ isPlaying /\ isConnected
  /\ Len(writes) >= 2
  /\ handled = MaxPlayoutChunks
  /\ buffer = <<>>

\* the step sends a client_ready, by the record of the step
ReadyInStep == \E i \in 1..Len(snkLast'.out) : snkLast'.out[i] = "client_ready"

\* the sample window after the step is the window before it with the new
\* sample, stamped now, at its end and its oldest entries dropped beyond
\* syncSamples
WindowShifted ==
  LET n == Len(sync.samples)
      m == Len(sync'.samples)
  IN /\ m = IF n + 1 <= syncSamples THEN n + 1 ELSE syncSamples
     /\ sync'.samples[m].timestamp = clock
     /\ \A i \in 1..(m - 1) : sync'.samples[i] = sync.samples[i + (n + 1 - m)]

\* C35: a sync_response handled while no request is pending changes nothing
\* of the sync state and sends no client_ready; the sync state changes only
\* in a step that accepts a sync_response while a request is pending, and
\* that step clears the pending marker; the responses accepted never
\* outnumber the requests sent; the sample window holds the last samples
\* accepted, at most syncSamples of them.
C35_ResponseNeedsRequest ==
  /\ [][(snkLast'.got = "sync_response" /\ pendingSyncT1 = <<>>)
          => /\ sync' = sync
             /\ ~ReadyInStep
             /\ syncLog' = syncLog
             /\ pendingSyncT1' = <<>>]_vars
  /\ [][(sync' # sync \/ syncLog'.accepted # syncLog.accepted)
          => /\ snkLast'.got = "sync_response"
             /\ pendingSyncT1 # <<>>
             /\ pendingSyncT1' = <<>>
             /\ syncLog'.accepted = syncLog.accepted + 1
             /\ WindowShifted]_vars
  /\ [](syncLog.accepted <= Len(syncLog.sent))
  /\ [](Len(sync.samples) <= syncSamples)
  /\ [](Len(sync.samples) = IF syncLog.accepted <= syncSamples
                               THEN syncLog.accepted ELSE syncSamples)

\* the sink has accepted one sample more than the window holds
C35_Witness ==
  /\ syncLog.accepted = syncSamples + 1
  /\ Len(syncLog.sent) = syncSamples + 1
  /\ Len(sync.samples) = syncSamples
  /\ pendingSyncT1 = <<>>

====
